---------------------------- MODULE Spec2Model ----------------------------
(***************************************************************************)
(* Model of the durable broadcast/mailcast delivery pipeline of the        *)
(* WhatsApp agent: the campaign state store with its derived-status        *)
(* machine (utils/broadcast), the campaign commands (processActions) and   *)
(* the per-job handlers of the stream consumers, the message templates     *)
(* (utils/index) and the campaign orchestrator (createBroadcastConsumer).  *)
(*                                                                         *)
(* The specifications of the module:                                       *)
(*   SpecDerive    deriveBroadcastStatus as a pure function of a state;    *)
(*   SpecStore     one campaign entry of the versioned KV store, written   *)
(*                 by concurrent progress updates and campaign commands;   *)
(*   Spec          the job handlers of the stream consumers, one delivery  *)
(*                 of one job per step;                                    *)
(*   SpecTemplate  applyVariables as a pure function of a template and a   *)
(*                 variable map;                                           *)
(*   SpecOrch      the state watcher, the processor loops and the          *)
(*                 connection monitor of the orchestrator;                 *)
(*   SpecWatch     SpecOrch without the connection monitor;                *)
(*   SpecLoop      one processor loop, step by step, with the session and  *)
(*                 stop() changing under it;                               *)
(*   SpecLoopLive  SpecLoop with every await of the loop returning;        *)
(*   SpecDedup     the dedup record of one job under its two writers;      *)
(*   SpecConsumer  the consumer loop, its restart timer and the shutdown.  *)
(***************************************************************************)
EXTENDS Integers, Sequences, FiniteSets, TLC

VARIABLES
    dIn, dOut,                      \* SpecDerive: argument and result
    kv,                             \* the campaign entry at key <agent>_<batch>
    upc, usnap, ukind, uatt,        \* progress updaters (updateBroadcastProgress calls)
    started,                        \* number of progress updates begun
    cpc, csnap, cact, creply,       \* the command handler (processActions)
    ncmd,                           \* number of commands begun
    hist,                           \* last write to the entry: who, and the entry before it
    profile, deliveryCount, acked, sendCalls, sendOks, dlq,
    taskStatus, dedup, last, cache, \* Spec: the job handlers
    tIn, tOut,                      \* SpecTemplate: arguments and result
    connected,                      \* SpecOrch: the session has a user (!!sock.user)
    bstatus, watchQ,                \* entries at <agent>.<batch>, watch notifications
    ustore,                         \* statuses of the entries at <agent>_<batch>
    nenv, drops,                    \* environment events so far, disconnections so far
    currentProcessor, procs,        \* the watcher's processor and every processor made
    lastConnectionState, polls,     \* the connection monitor and its running callbacks
    issued,                         \* transitionBroadcastStatus calls, newest first
    lpc, isRunning,                 \* SpecLoop: where start() is, and its flag
    sock, pending,                  \* the session, the pending tasks of the batch
    lprog, dotEntry,                \* counters at <agent>_<batch>, entry at <agent>.<batch>
    lpause, llast,                  \* the pause the loop issued, its last step
    lghost,                         \* stop() and what the loop began after it
    redis, now, rlast,              \* the dedup record of one key, the clock, the last command
    consumer, isShuttingDown,       \* where startConsumer is, the shutdown flag
    restartTimer,                   \* the setTimeout of the restart is pending
    failures, consumed, clast       \* loop-level exceptions, messages handled, last step

dvars == <<dIn, dOut>>
svars == <<kv, upc, usnap, ukind, uatt, started, cpc, csnap, cact, creply, ncmd, hist>>
jvars == <<profile, deliveryCount, acked, sendCalls, sendOks, dlq,
           taskStatus, dedup, last, cache>>
tvars == <<tIn, tOut>>
ovars == <<connected, bstatus, watchQ, ustore, nenv, drops, currentProcessor, procs,
           lastConnectionState, polls, issued>>
lvars == <<lpc, isRunning, sock, pending, lprog, dotEntry, lpause, llast, lghost>>
rvars == <<redis, now, rlast>>
cvars == <<consumer, isShuttingDown, restartTimer, failures, consumed, clast>>
vars  == <<dvars, svars, jvars, tvars, ovars, lvars, rvars, cvars>>

----------------------------------------------------------------------------
(* JavaScript values of the counter fields.  A counter is a natural number, *)
(* or one of three non-numbers: undefined (the field is absent from the     *)
(* stored object), NaN (number + undefined) and null (what JSON.stringify   *)
(* writes for NaN).                                                         *)

JsUndefined == -1
JsNull == -2
JsNaN == -3

IsNumber(x) == x >= 0

\* ToNumber: undefined -> NaN, null -> 0
JsToNumber(x) ==
    IF x = JsUndefined \/ x = JsNaN THEN JsNaN
    ELSE IF x = JsNull THEN 0
    ELSE x

\* a + b on counters
JsAdd(a, b) ==
    IF JsToNumber(a) = JsNaN \/ JsToNumber(b) = JsNaN THEN JsNaN
    ELSE JsToNumber(a) + JsToNumber(b)

\* x || 0 : 0, NaN, null and undefined are falsy
JsOrZero(x) == IF IsNumber(x) THEN x ELSE 0

\* a < b : false as soon as one side converts to NaN
JsLess(a, b) ==
    /\ JsToNumber(a) # JsNaN
    /\ JsToNumber(b) # JsNaN
    /\ JsToNumber(a) < JsToNumber(b)

\* a === b : no conversion, NaN equals nothing
JsStrictEq(a, b) == a # JsNaN /\ b # JsNaN /\ a = b

\* JSON.parse(JSON.stringify(x)) on one field: NaN is written as null, an
\* undefined field is omitted and reads back as undefined
JsonRoundTrip(x) == IF x = JsNaN THEN JsNull ELSE x

----------------------------------------------------------------------------
(* The campaign state and its derived-status machine.                      *)

Statuses == {"SCHEDULED", "STARTING", "PROCESSING", "PAUSED",
             "COMPLETED", "CANCELLED", "FAILED"}
Terminal == {"COMPLETED", "CANCELLED", "FAILED"}

\* FAILURE_RATE_THRESHOLD = 0.1, as a percentage
FAILURE_RATE_THRESHOLD_PCT == 10

\* a transition table that allows every pair
anyTransition(from, to) == TRUE

canTransition(from, to) ==
    \/ from = "PROCESSING" /\ to \in {"COMPLETED", "FAILED"}
    \/ from = "STARTING" /\ to = "PROCESSING"

\* a threshold that is reached rather than exceeded
FailureRateAtLeastThreshold(failed, total) ==
    /\ IsNumber(JsToNumber(failed))
    /\ total > 0
    /\ JsToNumber(failed) * 100 >= FAILURE_RATE_THRESHOLD_PCT * total

\* failureRate = total > 0 ? failed / total : 0;  failureRate > 0.1 .
\* failed / total is the double nearest to the quotient and 0.1 the double
\* nearest to 1/10, so for the totals in range the comparison is that of
\* the exact quotients; NaN (failed undefined) compares false.
FailureRateExceedsThreshold(failed, total) ==
    /\ IsNumber(JsToNumber(failed))
    /\ total > 0
    /\ JsToNumber(failed) * 100 > FAILURE_RATE_THRESHOLD_PCT * total

deriveBroadcastStatus(state) ==
    IF state.status = "CANCELLED" \/ state.status = "PAUSED" THEN state.status
    ELSE IF JsStrictEq(state.processed, 0) THEN state.status
    ELSE IF JsLess(state.processed, state.total) THEN "PROCESSING"
    ELSE IF JsStrictEq(state.processed, state.total)
         THEN IF FailureRateExceedsThreshold(state.failed, state.total)
              THEN "FAILED" ELSE "COMPLETED"
    ELSE state.status

----------------------------------------------------------------------------
(* SpecDerive: deriveBroadcastStatus applied to every state in range.      *)

MaxDeriveTotal == 10

DeriveInputs ==
    { [status |-> s, total |-> t, completed |-> c, failed |-> f, processed |-> c + f] :
        s \in Statuses, t \in 0..MaxDeriveTotal,
        c \in 0..(MaxDeriveTotal + 1), f \in 0..(MaxDeriveTotal + 1) }

IdleStore ==
    /\ kv = [exists |-> FALSE]
    /\ upc = <<>> /\ usnap = <<>> /\ ukind = <<>> /\ uatt = <<>>
    /\ started = 0
    /\ cpc = "idle" /\ csnap = [exists |-> FALSE] /\ cact = "NONE" /\ creply = "NONE"
    /\ ncmd = 0
    /\ hist = [by |-> "NONE"]

IdleTemplate ==
    /\ tIn = [template |-> <<>>] /\ tOut = "NONE"

IdleLoop ==
    /\ lpc = "exited" /\ isRunning = FALSE /\ sock = "none" /\ pending = 0
    /\ lprog = <<>> /\ dotEntry = <<>> /\ lpause = "NONE"
    /\ llast = [step |-> "none"] /\ lghost = <<>>

IdleDedup ==
    /\ redis = [exists |-> FALSE] /\ now = 0 /\ rlast = [op |-> "none"]

IdleConsumer ==
    /\ consumer = "none" /\ isShuttingDown = FALSE /\ restartTimer = FALSE
    /\ failures = 0 /\ consumed = 0 /\ clast = [step |-> "none"]

IdleOrch ==
    /\ connected = TRUE /\ bstatus = <<>> /\ watchQ = <<>> /\ ustore = <<>>
    /\ nenv = 0 /\ drops = 0
    /\ currentProcessor = 0 /\ procs = <<>>
    /\ lastConnectionState = TRUE /\ polls = <<>> /\ issued = <<>>

IdleJobs ==
    /\ profile = [class |-> "NONE"]
    /\ deliveryCount = <<>> /\ acked = <<>> /\ sendCalls = 0 /\ sendOks = 0
    /\ dlq = <<>> /\ taskStatus = "PENDING" /\ dedup = "none"
    /\ last = [job |-> 0]
    /\ cache = "NONE"

DeriveInit ==
    /\ dIn \in { st \in DeriveInputs : st.processed <= st.total + 1 }
    /\ dOut = "NONE"
    /\ IdleStore
    /\ IdleJobs
    /\ IdleTemplate
    /\ IdleOrch
    /\ IdleLoop
    /\ IdleDedup
    /\ IdleConsumer

DeriveStep ==
    /\ dOut = "NONE"
    /\ dOut' = deriveBroadcastStatus(dIn)
    /\ UNCHANGED <<dIn, svars, jvars, tvars, ovars, lvars, rvars, cvars>>

DeriveNext == DeriveStep

SpecDerive == DeriveInit /\ [][DeriveNext]_vars

\* C9: for a state that is neither PAUSED nor CANCELLED the derived status is
\* the current status when processed = 0, PROCESSING when 0 < processed <
\* total, and when processed = total (> 0) FAILED if failed/total exceeds 10%
\* and COMPLETED otherwise; total=10 with failed=1 gives COMPLETED and with
\* failed=2 gives FAILED.
C9_DerivedStatusRule ==
    (dOut # "NONE" /\ dIn.status \notin {"PAUSED", "CANCELLED"}) =>
        /\ dIn.processed = 0 => dOut = dIn.status
        /\ (0 < dIn.processed /\ dIn.processed < dIn.total) => dOut = "PROCESSING"
        /\ (0 < dIn.processed /\ dIn.processed = dIn.total /\ 10 * dIn.failed > dIn.total)
               => dOut = "FAILED"
        /\ (0 < dIn.processed /\ dIn.processed = dIn.total /\ 10 * dIn.failed <= dIn.total)
               => dOut = "COMPLETED"
        /\ (dIn.total = 10 /\ dIn.processed = 10 /\ dIn.failed = 1) => dOut = "COMPLETED"
        /\ (dIn.total = 10 /\ dIn.processed = 10 /\ dIn.failed = 2) => dOut = "FAILED"

C9_Witness ==
    /\ dIn.status = "PROCESSING" /\ dIn.total = 10
    /\ dIn.processed = 10 /\ dIn.failed = 1
    /\ dOut = "COMPLETED"

----------------------------------------------------------------------------
(* SpecStore: the entry of one batch in the broadcast_state KV bucket, at    *)
(* the key <agentId>_<batchId> that updateBroadcastProgress and the campaign *)
(* commands read and write.  Every await is a step boundary: the get and the *)
(* conditioned update of one call are separate steps, so that other writers  *)
(* interleave between them.                                                  *)

MaxTotal == 1          \* largest total the producer seeds
MaxUpdates == 2        \* progress updates begun in one behaviour
MaxCommands == 2       \* campaign commands begun in one behaviour

\* the two callers of updateBroadcastProgress that run concurrently: the
\* job handler of the stream consumer and the orchestrator's loop
Updaters == {"dispatcher", "orchestrator"}
TaskUpdates == {"COMPLETED", "ERROR"}
Commands == {"START_BROADCAST", "PAUSE_BROADCAST", "RESUME_BROADCAST", "CANCEL_BROADCAST"}

NoEntry == [exists |-> FALSE]

Entry(rev, status, total, completed, failed, processed) ==
    [exists |-> TRUE, rev |-> rev, status |-> status, total |-> total,
     completed |-> completed, failed |-> failed, processed |-> processed]

\* what the producer of the jobs stores before the agent sees the batch
SeededEntries ==
    { Entry(1, s, t, 0, 0, 0) : s \in {"SCHEDULED", "STARTING", "PROCESSING"},
                                t \in 1..MaxTotal }

\* JSON.stringify of the state object, as read back by the next JSON.parse
JsonStored(st) ==
    [st EXCEPT !.total = JsonRoundTrip(@), !.completed = JsonRoundTrip(@),
               !.failed = JsonRoundTrip(@), !.processed = JsonRoundTrip(@)]

\* the state object of updateBroadcastProgress after the counters and the
\* derived status have been applied to the entry read
ApplyProgress(entry, update) ==
    LET completed == IF update = "COMPLETED" THEN JsOrZero(entry.completed) + 1
                     ELSE entry.completed
        failed    == IF update = "ERROR" THEN JsOrZero(entry.failed) + 1
                     ELSE entry.failed
        counted   == [entry EXCEPT !.completed = completed, !.failed = failed,
                                   !.processed = JsAdd(completed, failed)]
        derived   == deriveBroadcastStatus(counted)
    IN  IF /\ counted.status \notin {"PAUSED", "CANCELLED"}
           /\ derived # counted.status
           /\ canTransition(counted.status, derived)
        THEN [counted EXCEPT !.status = derived]
        ELSE counted

maxRetries == 3

\* a write that is not conditioned on the revision read
ProgressWriteIgnoresRevision(u) == TRUE

\* kv.update(stateKey, value, entry.revision): accepted when the revision
\* read is still the stored one, else "wrong last sequence"
ProgressWriteAccepted(u) == kv.exists /\ usnap[u].rev = kv.rev

\* a conflict that is retried whatever the attempt
RetryAlways(att) == TRUE

\* err.message includes 'wrong last sequence' && i < maxRetries - 1
RetryAllowed(att) == att < maxRetries - 1

\* a caller (a job handler, the orchestrator loop) reports one job outcome
BeginUpdate(u, update) ==
    /\ upc[u] = "idle"
    /\ started < MaxUpdates
    /\ started' = started + 1
    /\ upc' = [upc EXCEPT ![u] = "get"]
    /\ ukind' = [ukind EXCEPT ![u] = update]
    /\ uatt' = [uatt EXCEPT ![u] = 0]
    /\ UNCHANGED <<kv, usnap, cpc, csnap, cact, creply, ncmd, hist, dvars, tvars, ovars, lvars, rvars, cvars, jvars>>

\* const entry = await kv.get(stateKey); if (!entry?.value) return;
\* then the new state is computed from the entry read
ProgressGet(u) ==
    /\ upc[u] = "get"
    /\ IF kv.exists
       THEN /\ usnap' = [usnap EXCEPT ![u] = JsonStored(ApplyProgress(kv, ukind[u]))]
            /\ upc' = [upc EXCEPT ![u] = "update"]
       ELSE /\ upc' = [upc EXCEPT ![u] = "idle"]
            /\ UNCHANGED usnap
    /\ UNCHANGED <<kv, ukind, uatt, started, cpc, csnap, cact, creply, ncmd, hist,
                   dvars, tvars, ovars, lvars, rvars, cvars, jvars>>

\* await kv.update(...): success returns; a version conflict retries while
\* i < maxRetries - 1 and is dropped after that
ProgressUpdate(u) ==
    /\ upc[u] = "update"
    /\ IF ProgressWriteAccepted(u)
       THEN /\ kv' = [usnap[u] EXCEPT !.rev = kv.rev + 1]
            /\ hist' = [by |-> "progress", prev |-> kv, att |-> uatt[u]]
            /\ upc' = [upc EXCEPT ![u] = "idle"]
            /\ UNCHANGED uatt
       ELSE /\ IF RetryAllowed(uatt[u])
               THEN /\ uatt' = [uatt EXCEPT ![u] = @ + 1]
                    /\ upc' = [upc EXCEPT ![u] = "get"]
               ELSE /\ upc' = [upc EXCEPT ![u] = "idle"]
                    /\ UNCHANGED uatt
            /\ UNCHANGED <<kv, hist>>
    /\ UNCHANGED <<usnap, ukind, started, cpc, csnap, cact, creply, ncmd, dvars, tvars, ovars, lvars, rvars, cvars, jvars>>

\* the status a command stores
CommandStatus(action) ==
    CASE action = "START_BROADCAST"  -> "PROCESSING"
      [] action = "PAUSE_BROADCAST"  -> "PAUSED"
      [] action = "RESUME_BROADCAST" -> "PROCESSING"
      [] action = "CANCEL_BROADCAST" -> "CANCELLED"

\* the object START_BROADCAST / CANCEL_BROADCAST create when no entry was
\* found: status, batchId, agentId and a timestamp, no counters
CreatedEntry(action) ==
    Entry(1, CommandStatus(action), JsUndefined, JsUndefined, JsUndefined, JsUndefined)

CommandWriteAccepted == kv.exists /\ csnap.rev = kv.rev

\* const currentEntry = await fastify.broadcastStateKV.get(stateKey)
CommandGet(action) ==
    /\ cpc = "idle"
    /\ ncmd < MaxCommands
    /\ ncmd' = ncmd + 1
    /\ cact' = action
    /\ csnap' = kv
    /\ cpc' = "write"
    /\ creply' = "NONE"
    /\ UNCHANGED <<kv, upc, usnap, ukind, uatt, started, hist, dvars, tvars, ovars, lvars, rvars, cvars, jvars>>

\* the conditioned update of the entry found, or the create (START, CANCEL)
\* / nothing (PAUSE, RESUME) when none was found; a rejected write throws
\* and the catch of processActions replies success: false
CommandWrite ==
    /\ cpc = "write"
    /\ cpc' = "idle"
    /\ IF csnap.exists
       THEN IF CommandWriteAccepted
            THEN /\ kv' = [JsonStored(csnap) EXCEPT !.status = CommandStatus(cact),
                                                     !.rev = kv.rev + 1]
                 /\ hist' = [by |-> "command", prev |-> kv, att |-> 0]
                 /\ creply' = "success"
            ELSE /\ creply' = "error"
                 /\ UNCHANGED <<kv, hist>>
       ELSE IF cact \in {"START_BROADCAST", "CANCEL_BROADCAST"}
            THEN IF ~kv.exists
                 THEN /\ kv' = CreatedEntry(cact)
                      /\ hist' = [by |-> "command", prev |-> kv, att |-> 0]
                      /\ creply' = "success"
                 ELSE /\ creply' = "error"
                      /\ UNCHANGED <<kv, hist>>
            ELSE /\ creply' = "success"
                 /\ UNCHANGED <<kv, hist>>
    /\ UNCHANGED <<upc, usnap, ukind, uatt, started, csnap, cact, ncmd, dvars, tvars, ovars, lvars, rvars, cvars, jvars>>

StoreInit ==
    /\ kv \in SeededEntries \cup {NoEntry}
    /\ upc = [u \in Updaters |-> "idle"]
    /\ usnap = [u \in Updaters |-> NoEntry]
    /\ ukind = [u \in Updaters |-> "COMPLETED"]
    /\ uatt = [u \in Updaters |-> 0]
    /\ started = 0
    /\ cpc = "idle" /\ csnap = NoEntry /\ cact = "NONE" /\ creply = "NONE"
    /\ ncmd = 0
    /\ hist = [by |-> "NONE"]
    /\ dIn = [status |-> "NONE"] /\ dOut = "NONE"
    /\ IdleJobs
    /\ IdleTemplate
    /\ IdleOrch
    /\ IdleLoop
    /\ IdleDedup
    /\ IdleConsumer

StoreNext ==
    \/ \E u \in Updaters, update \in TaskUpdates : BeginUpdate(u, update)
    \/ \E u \in Updaters : ProgressGet(u)
    \/ \E u \in Updaters : ProgressUpdate(u)
    \/ \E action \in Commands : CommandGet(action)
    \/ CommandWrite

SpecStore == StoreInit /\ [][StoreNext]_vars

\* C5: after every progress update the stored state has processed =
\* completed + failed, all three non-negative integers, from any state the
\* agent can store (a START_BROADCAST / CANCEL_BROADCAST creation included).
C5_ProgressSum ==
    hist.by = "progress" =>
        /\ IsNumber(kv.completed) /\ IsNumber(kv.failed) /\ IsNumber(kv.processed)
        /\ kv.processed = kv.completed + kv.failed

\* C6: once total is set, processed <= total holds in the stored state after
\* every progress update.
C6_ProgressBound ==
    (hist.by = "progress" /\ IsNumber(kv.total) /\ IsNumber(kv.processed)) =>
        kv.processed <= kv.total

\* C7: a progress update written while the stored status is PAUSED or
\* CANCELLED leaves the status field as it was (only counters change),
\* whatever the update had read before the pause / cancel was written.
C7_StatusSticky ==
    (hist.by = "progress" /\ hist.prev.status \in {"PAUSED", "CANCELLED"}) =>
        kv.status = hist.prev.status

\* a progress update that lost a race against the pause (att >= 1) and then
\* wrote its counter into the PAUSED entry
C7_Witness ==
    /\ hist.by = "progress"
    /\ hist.att >= 1
    /\ hist.prev.status = "PAUSED"
    /\ kv.status = "PAUSED"
    /\ kv.processed = hist.prev.processed + 1

\* C8: once the stored status is COMPLETED, CANCELLED or FAILED no later
\* write of this agent changes the status or the counters.
C8_TerminalFinal ==
    (hist.by # "NONE" /\ hist.prev.exists /\ hist.prev.status \in Terminal) =>
        /\ kv.status = hist.prev.status
        /\ kv.completed = hist.prev.completed
        /\ kv.failed = hist.prev.failed
        /\ kv.processed = hist.prev.processed

C18_Step ==
    /\ \A u \in Updaters :
         /\ uatt'[u] <= maxRetries - 1
         /\ (upc[u] = "update" /\ upc'[u] = "get") =>
               (kv' = kv /\ usnap[u].rev # kv.rev /\ uatt'[u] = uatt[u] + 1)
         /\ (upc[u] = "update" /\ upc'[u] = "idle" /\ usnap[u].rev # kv.rev) =>
               (kv' = kv /\ uatt[u] = maxRetries - 1)
    /\ (kv' # kv /\ kv.exists) =>
         /\ kv'.rev = kv.rev + 1
         /\ hist'.by = "progress" =>
               \E u \in Updaters : upc[u] = "update" /\ upc'[u] = "idle" /\ usnap[u].rev = kv.rev
         /\ hist'.by = "command" => csnap.rev = kv.rev
    /\ (cpc = "write" /\ csnap.exists /\ csnap.rev # kv.rev) =>
         (cpc' = "write" \/ (cpc' = "idle" /\ kv' = kv /\ creply' = "error"))

CountedOutcomes(entry) == JsOrZero(entry.completed) + JsOrZero(entry.failed)

\* C35: every write onto the entry is based on the stored revision, so no
\* counter update is lost: a progress write leaves completed and failed not
\* lower than they were stored and the stored completed + failed one more
\* than before (hence equal to the number of progress writes that went
\* through), and a command's write leaves both counters as stored.
C35_NoLostCounterUpdate ==
    (hist.by # "NONE" /\ hist.prev.exists) =>
        /\ kv.rev = hist.prev.rev + 1
        /\ hist.by = "progress" =>
              /\ JsStrictEq(JsAdd(kv.completed, kv.failed), CountedOutcomes(hist.prev) + 1)
              /\ ~JsLess(kv.completed, hist.prev.completed)
              /\ ~JsLess(kv.failed, hist.prev.failed)
        /\ hist.by = "command" =>
              /\ kv.completed = hist.prev.completed
              /\ kv.failed = hist.prev.failed

\* C36: a batch seeded STARTING or PROCESSING with total >= 1, for which no
\* command was issued (never paused, never cancelled): once as many progress
\* updates have been applied as it has recipients, the stored status is
\* COMPLETED or FAILED.
C36_ReachesTerminal ==
    (/\ ncmd = 0
     /\ hist.by = "progress"
     /\ hist.prev.status \in {"STARTING", "PROCESSING"}
     /\ kv.total >= 1
     /\ CountedOutcomes(kv) = kv.total)
        => kv.status \in {"COMPLETED", "FAILED"}

\* C38: a command that replies success: true has written its target status
\* to the entry of the batch; a command whose conditioned write is rejected
\* by a version conflict, and a PAUSE / RESUME that finds no entry to
\* change, reply success: false and leave the store as it was.
C38_Step ==
    (cpc = "write" /\ cpc' = "idle") =>
        /\ creply' = "success" =>
              /\ kv'.exists /\ kv'.status = CommandStatus(cact)
              /\ hist'.by = "command" /\ hist'.prev = kv
        /\ (csnap.exists /\ csnap.rev # kv.rev) => (creply' = "error" /\ kv' = kv)
        /\ (~csnap.exists /\ cact \in {"PAUSE_BROADCAST", "RESUME_BROADCAST"}) =>
              (creply' = "error" /\ kv' = kv)

C38_ReplyMatchesStore == [][C38_Step]_vars

----------------------------------------------------------------------------
(* Spec: the job handlers of the stream consumers.  One behaviour follows   *)
(* the stream messages that carry one send job (the same agentId, taskId    *)
(* and phoneNumber, hence the same dedup key and the same task), through    *)
(* one of three handlers:                                                   *)
(*   "mailcast"  createMailcastConsumer: handleMailcastMessage and          *)
(*               handleMailcastError;                                       *)
(*   "durable"   createAgentDurableConsumer: the broadcast route of         *)
(*               startConsumer and handleBroadcastMessage;                  *)
(*   "worker"    the fetch-based createBroadcastConsumer: the per-message   *)
(*               switch of startBroadcastWorker, handleBroadcastMessage and *)
(*               handleBroadcastError.                                      *)
(* A consumer handles its messages one at a time (each handler is awaited   *)
(* inside the for-await loop), so one delivery is one step.  What the       *)
(* collaborators answer during a delivery is its input: whether a socket is *)
(* set, whether the Redis get / set, the JetStream publish and the Task API *)
(* PATCH succeed, and whether the session's send returns a message.         *)

\* the stream message of the job and a second message that carries the same
\* job (a republication by the producer)
JobIds == {1, 2}

MAX_MAILCAST_RETRIES == 3

MailcastMaxDeliver == 5
DurableMaxDeliver == 5
WorkerMaxDeliver == 1

\* max_deliver of the consumer the handler reads from
MaxDeliver(class) ==
    CASE class = "mailcast" -> MailcastMaxDeliver
      [] class = "durable"  -> DurableMaxDeliver
      [] class = "worker"   -> WorkerMaxDeliver

Inputs ==
    [sock : BOOLEAN, redisGet : BOOLEAN, send : BOOLEAN, redisSet : BOOLEAN,
     publish : BOOLEAN, patch : BOOLEAN, kvOk : BOOLEAN]

\* the mailcast handler never touches the campaign store
MailcastInputs == { io \in Inputs : io.kvOk }

\* what one delivery did: the branch taken, the send call and its result,
\* the dead-letter publish and its result, the dedup record afterwards, the
\* task status and the progress update requested, and whether it acked
Eff(path, send, pub, dd, task, progress, ack) ==
    [path |-> path, send |-> send, pub |-> pub, dedup |-> dd, task |-> task,
     progress |-> progress, ack |-> ack, state |-> "NONE"]

\* the delivery read the campaign status st before it did e
Saw(st, e) == [e EXCEPT !.state = st]

\* fastify.publishEvent: js.publish inside a try whose catch only logs
publishEvent(io) == IF io.publish THEN "ok" ELSE "fail"

\* the ack that follows "await publishToDLQ(...)" in a try block: reached
\* unless publishToDLQ threw, and publishEvent never throws
AckAfterPublishToDLQ(pub) == TRUE

\* a task-status update that lets the error of the PATCH escape
updateTaskStatusRethrows(io) == ~io.patch

\* updateTaskStatus: the PATCH of the Task API inside a try whose catch only
\* logs; whether an error escapes to the caller
updateTaskStatusThrows(io) == FALSE

\* updateBroadcastProgress: every error of the get / update is caught and
\* logged ("non-critical update"); whether an error escapes to the caller
updateBroadcastProgressThrows(io) == FALSE

\* sendMessage through the session after the required-field check
processMessage(io) ==
    IF profile.payload = "missing" THEN "none"
    ELSE IF io.send THEN "ok" ELSE "fail"

\* shouldRetry = m.info.deliveryCount < MAX_MAILCAST_RETRIES
shouldRetry(count) == count < MAX_MAILCAST_RETRIES

\* the errors a handler throws: the SyntaxError of JSON.parse, a rejected
\* Redis command, and the Error('Socket not initialized') of getSock()
Errors == {"parse_error", "redis_error", "no_socket", "side_effect_error"}

\* error instanceof SyntaxError || message includes 'JSON' / 'Unexpected token'
isPermanentError(err) == err = "parse_error"

\* handleMailcastError: what the catch around JSON.parse and
\* handleMailcastMessage does with the error thrown
handleMailcastError(count, io, err, send) ==
    IF isPermanentError(err)
    THEN Eff(err, send, publishEvent(io), dedup, "none", "none",
             AckAfterPublishToDLQ(publishEvent(io)))
    ELSE IF count >= MAX_MAILCAST_RETRIES
    THEN Eff(err, send, publishEvent(io), dedup, "none", "none",
             AckAfterPublishToDLQ(publishEvent(io)))
    ELSE Eff(err, send, "none", dedup, "none", "none", FALSE)

\* a dedup check that takes only the record of a processed job for a hit
alreadyProcessedOnlySent(record) == record = "processed"

\* "if (alreadyProcessed)" on the answer of redis.get(dedupKey): any stored
\* record is a non-empty JSON string, whoever wrote it
alreadyProcessed(record) == record # "none"

\* the agent check at the head of handleMailcastMessage / handleBroadcastMessage
agentMismatch == profile.agent = "other"

\* createMailcastConsumer: one message of the for-await loop
handleMailcastMessage(count, io) ==
    IF profile.payload = "malformed" THEN handleMailcastError(count, io, "parse_error", "none")
    ELSE IF agentMismatch THEN Eff("agent_mismatch", "none", "none", dedup, "none", "none", TRUE)
    ELSE IF ~io.redisGet THEN handleMailcastError(count, io, "redis_error", "none")
    ELSE IF alreadyProcessed(dedup) THEN Eff("dedup_hit", "none", "none", dedup, "none", "none", TRUE)
    ELSE IF ~io.sock THEN handleMailcastError(count, io, "no_socket", "none")
    ELSE LET sent == processMessage(io) IN
         IF sent = "ok"
         THEN IF ~io.redisSet THEN handleMailcastError(count, io, "redis_error", sent)
              ELSE IF updateTaskStatusThrows(io)
              THEN [handleMailcastError(count, io, "side_effect_error", sent)
                      EXCEPT !.dedup = "processed", !.task = "COMPLETED"]
              ELSE Eff("sent", sent, "none", "processed", "COMPLETED", "none", TRUE)
         ELSE IF ~shouldRetry(count)
              THEN IF ~io.redisSet
                   THEN Eff("mark_failed_threw", sent, publishEvent(io), dedup,
                            "none", "none", FALSE)
                   ELSE IF updateTaskStatusThrows(io)
                   THEN Eff("side_effect_error", sent, publishEvent(io), "failed", "ERROR",
                            "none", FALSE)
                   ELSE Eff("dead_letter", sent, publishEvent(io), "failed", "ERROR",
                            "none", AckAfterPublishToDLQ(publishEvent(io)))
              ELSE IF updateTaskStatusThrows(io)
              THEN [handleMailcastError(count, io, "side_effect_error", sent)
                      EXCEPT !.task = "PROCESSING"]
              ELSE Eff("retry", sent, "none", dedup, "PROCESSING", "none", FALSE)

\* the catch of startConsumer for a broadcast message: dead-letter and ack
durableBroadcastError(io, err, send) ==
    Eff(err, send, publishEvent(io), dedup,
        "none", "none", AckAfterPublishToDLQ(publishEvent(io)))

\* the status of the entry at <agent>_<batch>, "NONE" without an entry
storedStatus == IF kv.exists THEN kv.status ELSE "NONE"

\* checkBroadcastState on the entry at <agent>_<batch>
checkBroadcastState ==
    IF ~kv.exists THEN "continue"
    ELSE IF kv.status = "CANCELLED" THEN "skip"
    ELSE IF kv.status = "PAUSED" THEN "retry"
    ELSE "continue"

\* a failed broadcast send: dead-letter, progress ERROR, task ERROR, ack
broadcastFailure(io, sent) ==
    IF updateBroadcastProgressThrows(io) \/ updateTaskStatusThrows(io)
    THEN Eff("side_effect_error", sent, publishEvent(io), dedup, "ERROR", "ERROR", FALSE)
    ELSE Eff("dead_letter", sent, publishEvent(io), dedup, "ERROR", "ERROR",
             AckAfterPublishToDLQ(publishEvent(io)))

\* createAgentDurableConsumer: one broadcast message of the for-await loop
handleBroadcastMessageDurable(count, io) ==
    IF profile.payload = "malformed" THEN durableBroadcastError(io, "parse_error", "none")
    ELSE IF agentMismatch THEN Eff("agent_mismatch", "none", "none", dedup, "none", "none", TRUE)
    ELSE IF ~io.redisGet THEN durableBroadcastError(io, "redis_error", "none")
    ELSE IF alreadyProcessed(dedup) THEN Eff("dedup_hit", "none", "none", dedup, "none", "none", TRUE)
    ELSE Saw(storedStatus,
         IF checkBroadcastState = "skip"
         THEN Eff("state_skip", "none", "none", dedup, "none", "none", TRUE)
         ELSE IF checkBroadcastState = "retry"
         THEN Eff("state_retry", "none", "none", dedup, "none", "none", FALSE)
         ELSE IF ~io.sock THEN durableBroadcastError(io, "no_socket", "none")
         ELSE LET sent == processMessage(io) IN
              IF sent = "ok"
              THEN IF ~io.redisSet THEN durableBroadcastError(io, "redis_error", sent)
                   ELSE IF updateBroadcastProgressThrows(io) \/ updateTaskStatusThrows(io)
                   THEN [durableBroadcastError(io, "side_effect_error", sent)
                           EXCEPT !.dedup = "processed", !.task = "COMPLETED",
                                  !.progress = "COMPLETED"]
                   ELSE Eff("sent", sent, "none", "processed", "COMPLETED", "COMPLETED", TRUE)
              ELSE broadcastFailure(io, sent))

\* handleBroadcastError of the fetch-based consumer: dead-letter and ack
handleBroadcastError(io, err, send) ==
    Eff(err, send, publishEvent(io), dedup,
        "none", "none", AckAfterPublishToDLQ(publishEvent(io)))

\* processBroadcastMessage of the fetch-based consumer: getSock() throws
\* inside its try, which turns a missing socket into a failed result
processMessageWorker(io) ==
    IF profile.payload = "missing" \/ ~io.sock THEN "none"
    ELSE IF io.send THEN "ok" ELSE "fail"

\* the fetch-based consumer: one message of the fetched batch, switched on
\* the status of the batch in the local map broadcastStates
handleBroadcastMessageWorker(count, io) ==
    IF profile.payload = "malformed" THEN handleBroadcastError(io, "parse_error", "none")
    ELSE Saw(cache,
         IF cache = "NONE"
         THEN Eff("unknown_batch", "none", "none", dedup, "none", "none", TRUE)
         ELSE IF cache \in {"CANCELLED", "COMPLETED", "FAILED"}
         THEN Eff("state_skip", "none", "none", dedup, "none", "none", TRUE)
         ELSE IF cache # "PROCESSING"
         THEN Eff("state_retry", "none", "none", dedup, "none", "none", FALSE)
         ELSE IF ~io.redisGet THEN handleBroadcastError(io, "redis_error", "none")
         ELSE IF alreadyProcessed(dedup)
         THEN Eff("dedup_hit", "none", "none", dedup, "none", "none", TRUE)
         ELSE LET sent == processMessageWorker(io) IN
              IF sent = "ok"
              THEN IF ~io.redisSet THEN handleBroadcastError(io, "redis_error", sent)
                   ELSE IF updateBroadcastProgressThrows(io) \/ updateTaskStatusThrows(io)
                   THEN [handleBroadcastError(io, "side_effect_error", sent)
                           EXCEPT !.dedup = "processed", !.task = "COMPLETED",
                                  !.progress = "COMPLETED"]
                   ELSE Eff("sent", sent, "none", "processed", "COMPLETED", "COMPLETED", TRUE)
              ELSE IF profile.payload # "missing" /\ ~io.sock
              THEN [broadcastFailure(io, sent) EXCEPT !.path = "no_socket"]
              ELSE broadcastFailure(io, sent))

Plus(f, j, b) == [f EXCEPT ![j] = IF b THEN @ + 1 ELSE @]

\* the effects of one delivery on the stream, the session, the dead-letter
\* subject, the dedup cache, the Task API and the campaign entry
Settle(j, count, io, e) ==
    /\ deliveryCount' = [deliveryCount EXCEPT ![j] = count]
    /\ acked' = [acked EXCEPT ![j] = e.ack]
    /\ sendCalls' = IF e.send # "none" THEN sendCalls + 1 ELSE sendCalls
    /\ sendOks' = IF e.send = "ok" THEN sendOks + 1 ELSE sendOks
    /\ dlq' = Plus(dlq, j, e.pub = "ok")
    /\ dedup' = e.dedup
    /\ taskStatus' = IF e.task # "none" /\ io.patch THEN e.task ELSE taskStatus
    /\ IF e.progress # "none" /\ kv.exists /\ io.kvOk
       THEN /\ kv' = [JsonStored(ApplyProgress(kv, e.progress)) EXCEPT !.rev = kv.rev + 1]
            /\ hist' = [by |-> "progress", prev |-> kv, att |-> 0]
       ELSE UNCHANGED <<kv, hist>>
    /\ last' = [job |-> j, count |-> count, path |-> e.path, send |-> e.send,
                pub |-> e.pub, task |-> e.task,
                taskOk |-> (e.task # "none" /\ io.patch),
                progressOk |-> (e.progress # "none" /\ kv.exists /\ io.kvOk),
                progress |-> e.progress, ack |-> e.ack, state |-> e.state]
    /\ UNCHANGED <<profile, cache, upc, usnap, ukind, uatt, started,
                   cpc, csnap, cact, creply, ncmd, dvars, tvars, ovars, lvars, rvars, cvars>>

Deliverable(j, class) ==
    /\ profile.class = class
    /\ ~acked[j]
    /\ deliveryCount[j] < MaxDeliver(class)

DeliverMailcast(j, io) ==
    /\ Deliverable(j, "mailcast")
    /\ Settle(j, deliveryCount[j] + 1, io, handleMailcastMessage(deliveryCount[j] + 1, io))

DeliverBroadcastDurable(j, io) ==
    /\ Deliverable(j, "durable")
    /\ Settle(j, deliveryCount[j] + 1, io,
              handleBroadcastMessageDurable(deliveryCount[j] + 1, io))

DeliverBroadcastWorker(j, io) ==
    /\ Deliverable(j, "worker")
    /\ Settle(j, deliveryCount[j] + 1, io,
              handleBroadcastMessageWorker(deliveryCount[j] + 1, io))

\* the KV watcher of the fetch-based consumer: a PUT for the batch replaces
\* its state in broadcastStates, a DELETE removes it
WatcherPut(status) ==
    /\ profile.class = "worker"
    /\ cache # status
    /\ cache' = status
    /\ UNCHANGED <<profile, deliveryCount, acked, sendCalls, sendOks, dlq, taskStatus,
                   dedup, last, svars, dvars, tvars, ovars, lvars, rvars, cvars>>

Profiles ==
    { p \in [class : {"mailcast", "durable", "worker"}, agent : {"local", "other"},
             payload : {"ok", "missing", "malformed"}] :
        p.payload = "malformed" => p.agent = "local" }

\* the entry of the job's batch when the first message is delivered: none,
\* a campaign under way, paused or cancelled, or one whose jobs were all
\* counted already
JobEntries ==
    {NoEntry}
      \cup { Entry(1, s, Cardinality(JobIds), 0, 0, 0) : s \in {"PROCESSING", "PAUSED", "CANCELLED"} }
      \cup { Entry(1, "COMPLETED", Cardinality(JobIds), Cardinality(JobIds), 0, Cardinality(JobIds)) }

Init ==
    /\ profile \in Profiles
    /\ deliveryCount = [j \in JobIds |-> 0]
    /\ acked = [j \in JobIds |-> FALSE]
    /\ sendCalls = 0
    /\ sendOks = 0
    /\ dlq = [j \in JobIds |-> 0]
    /\ taskStatus = "PENDING"
    /\ dedup = "none"
    /\ last = [job |-> 0]
    /\ cache \in IF profile.class = "worker" THEN {"NONE", "PROCESSING"} ELSE {"NONE"}
    /\ kv \in CASE profile.class = "mailcast" -> {NoEntry}
                [] profile.class = "durable" -> JobEntries
                [] profile.class = "worker" ->
                     {NoEntry, Entry(1, "PROCESSING", Cardinality(JobIds), 0, 0, 0)}
    /\ upc = <<>> /\ usnap = <<>> /\ ukind = <<>> /\ uatt = <<>>
    /\ started = 0
    /\ cpc = "idle" /\ csnap = NoEntry /\ cact = "NONE" /\ creply = "NONE"
    /\ ncmd = 0
    /\ hist = [by |-> "NONE"]
    /\ dIn = [status |-> "NONE"] /\ dOut = "NONE"
    /\ IdleTemplate
    /\ IdleOrch
    /\ IdleLoop
    /\ IdleDedup
    /\ IdleConsumer

Next ==
    \/ \E j \in JobIds, io \in MailcastInputs : DeliverMailcast(j, io)
    \/ \E j \in JobIds, io \in Inputs : DeliverBroadcastDurable(j, io)
    \/ \E j \in JobIds, io \in Inputs : DeliverBroadcastWorker(j, io)
    \/ \E status \in Statuses \cup {"NONE"} : WatcherPut(status)

Spec == Init /\ [][Next]_vars

----------------------------------------------------------------------------
(* The delivery pipeline claims, over Spec.                                 *)

\* C1: over every interleaving of deliveries and redeliveries of the
\* messages that carry one job (the same agentId, taskId and phoneNumber),
\* at most one delivery sends: once the session has sent the job, no later
\* delivery sends it again.  Stated on the sends that went out; the calls
\* that returned no message are the retries of C3.
C1_AtMostOnceSend == sendOks <= 1

\* C2: a delivery that takes a dead-letter path (it issued the publish to the
\* dead-letter subject) acknowledges the job only if that publish succeeded;
\* if the publish failed the job is left unacknowledged.
C2_AckOnlyAfterDlqPublish ==
    (last.job # 0 /\ last.pub # "none" /\ last.ack) => last.pub = "ok"

\* C3: a mailcast delivery whose send fails leaves the job unacknowledged
\* with task status PROCESSING requested while its delivery count is below 3;
\* on the delivery with count 3 the job is published to the dead-letter
\* subject, task status ERROR is requested and the job is acknowledged.  A
\* send that succeeds on delivery 3 ends with COMPLETED requested, the job
\* acknowledged and no dead-letter record.
C3_MailcastRetryPolicy ==
    (profile.class = "mailcast" /\ last.job # 0) =>
        /\ (last.send = "fail" /\ last.count < MAX_MAILCAST_RETRIES) =>
              (~last.ack /\ last.task = "PROCESSING" /\ last.pub = "none")
        /\ (last.send = "fail" /\ last.count = MAX_MAILCAST_RETRIES) =>
              (last.pub = "ok" /\ last.task = "ERROR" /\ last.ack)
        /\ (last.send = "ok" /\ last.count = MAX_MAILCAST_RETRIES) =>
              (last.ack /\ last.task = "COMPLETED" /\ dlq[last.job] = 0)

\* C4: a broadcast delivery whose send fails dead-letters the job on that
\* delivery: the dead-letter record is published, the campaign progress is
\* updated as ERROR, task status ERROR is requested and the job is
\* acknowledged, so that it is not delivered again.
C4_BroadcastDeadLetteredOnFirstFailure ==
    (profile.class \in {"durable", "worker"} /\ last.job # 0 /\ last.send = "fail") =>
        /\ last.pub = "ok"
        /\ last.progress = "ERROR"
        /\ last.task = "ERROR"
        /\ last.ack

\* C10: a job whose target agentId differs from the local agent identity is
\* acknowledged on its first delivery with no send, no dead-letter publish,
\* no dedup record, no progress update and no task-status update.
C10_AgentMismatchDrop ==
    (profile.class # "NONE" /\ profile.agent = "other" /\ last.job # 0) =>
        /\ last.ack
        /\ last.count = 1
        /\ last.send = "none"
        /\ last.pub = "none"
        /\ dedup = "none"
        /\ last.progress = "none"
        /\ last.task = "none"

\* C13: a delivery that finds the session capability (the socket) missing
\* leaves the job unacknowledged, sends nothing and publishes nothing to the
\* dead-letter subject, whatever the delivery count.
C13_NoSocketNoAck ==
    (last.job # 0 /\ last.path = "no_socket") =>
        (~last.ack /\ last.send = "none" /\ last.pub = "none")

\* C14: a broadcast delivery that reads a campaign status COMPLETED, FAILED
\* or CANCELLED acknowledges the job and drops it: no send, no dead-letter
\* publish, no progress update.
C14_TerminalCampaignDrops ==
    (profile.class \in {"durable", "worker"} /\ last.job # 0 /\ last.state \in Terminal) =>
        /\ last.ack
        /\ last.send = "none"
        /\ last.pub = "none"
        /\ last.progress = "none"

\* C15: a broadcast delivery that reads the campaign status PAUSED neither
\* acknowledges nor sends nor dead-letters the job, and the job remains
\* available: the stream will deliver it again.
C15_PausedCampaignDefers ==
    (profile.class \in {"durable", "worker"} /\ last.job # 0 /\ last.state = "PAUSED") =>
        /\ ~last.ack
        /\ last.send = "none"
        /\ last.pub = "none"
        /\ Deliverable(last.job, profile.class)

\* C16: a delivery whose raw payload fails to parse publishes the job to the
\* dead-letter subject and acknowledges it on that delivery, for both job
\* classes and at any delivery count, without a send attempt.
C16_MalformedIsPermanent ==
    (last.job # 0 /\ profile.payload = "malformed") =>
        /\ last.pub = "ok"
        /\ dlq[last.job] >= 1
        /\ last.ack
        /\ last.send = "none"

\* C17: a failure of the task-status update or of the progress-counter
\* update never changes the acknowledgement the primary outcome gives: a
\* delivery whose send succeeded and whose dedup record was written, and a
\* delivery that took the dead-letter path, acknowledge the job whether or
\* not the two updates went through.
C17_SideEffectsBestEffort ==
    (last.job # 0 /\ last.path \notin {"redis_error", "mark_failed_threw"}) =>
        ((last.send = "ok" \/ last.pub # "none") => last.ack)

\* a broadcast delivery that sent the message and acknowledged the job
\* although both the PATCH of the task and the progress update failed
C17_Witness ==
    /\ last.job # 0
    /\ last.send = "ok" /\ last.ack
    /\ last.task = "COMPLETED" /\ ~last.taskOk
    /\ last.progress = "COMPLETED" /\ kv.exists /\ ~last.progressOk
    /\ taskStatus = "PENDING" /\ kv.processed = 0


\* the deliveries that came as far as the campaign-state check
PastStateCheck ==
    last.path \notin {"parse_error", "agent_mismatch", "redis_error", "dedup_hit"}

\* C28: a broadcast job whose batch has no entry in the campaign state
\* store is processed as if the campaign were active: the delivery that
\* finds no state goes on to the send, it is not dropped or deferred.
C28_MissingStateContinues ==
    (/\ last.job # 0
     /\ profile.class \in {"durable", "worker"} /\ profile.agent = "local"
     /\ ~kv.exists /\ last.state = "NONE"
     /\ PastStateCheck)
        => last.path \notin {"unknown_batch", "state_skip", "state_retry"}

\* the deliveries that came as far as the required-field check
PastFieldCheck ==
    last.path \in {"retry", "dead_letter", "mark_failed_threw", "side_effect_error"}

\* C29: a job whose payload parses but lacks phoneNumber or message is
\* dead-lettered and acknowledged on its first delivery, for both job
\* classes.  The dead-letter publish is counted when it was called.
C29_MissingFieldsPermanent ==
    (/\ last.job # 0
     /\ profile.payload = "missing"
     /\ last.count = 1
     /\ PastFieldCheck)
        => (last.pub # "none" /\ last.ack)

\* C30: across all deliveries of a message of a permanently failed job,
\* one dead-letter record is published, not two.
C30_OneDeadLetterRecord ==
    \A j \in JobIds : dlq[j] <= 1

\* the progress updates applied for the job: the entry is seeded at
\* revision 1 and the deliveries of the job are its only writers
CountedForJob == IF kv.exists THEN kv.rev - 1 ELSE 0

\* C37: across all deliveries of the messages that carry one broadcast job
\* the counters of its campaign are incremented at most once.
C37_CountedAtMostOnce == CountedForJob <= 1

\* C31: a delivery to the local agent that looks the dedup key up while a
\* record is stored for it (written by markAsProcessed or by markAsFailed)
\* acknowledges the job and does nothing else: no send, no dead-letter
\* publish, no progress update, no task-status update, and the record
\* stays as it was.  The lookup is taken to answer; in the fetch-based
\* consumer the lookup is reached for a batch known as PROCESSING.
C31_Step ==
    (/\ dedup # "none"
     /\ deliveryCount' # deliveryCount
     /\ profile.agent = "local"
     /\ profile.class = "worker" => cache = "PROCESSING"
     /\ last'.path # "redis_error")
        => /\ acked'[last'.job]
           /\ last'.send = "none" /\ last'.pub = "none"
           /\ last'.progress = "none" /\ last'.task = "none"
           /\ UNCHANGED <<sendCalls, sendOks, dlq, kv, taskStatus, dedup>>

----------------------------------------------------------------------------
(* Message templates (utils/index.ts).  A string is a sequence of tokens:   *)
(* a word token stands for a run of \w characters, the other tokens are     *)
(* the single characters "{", "}", "|", "." and " ".                        *)

WordTokens == {"Hello", "Guest", "name", "date", "constructor", "user"}

IsWord(tok) == tok \in WordTokens

\* JavaScript values a variable can hold
JsValues ==
    { [t |-> "undefined"], [t |-> "null"], [t |-> "number", n |-> 0],
      [t |-> "string", s |-> <<>>], [t |-> "string", s |-> <<"Ann">>] }

\* an object literal held by a variable, e.g. { user: { name: "Ann" } }
Object(fields) == [t |-> "object", o |-> fields]

\* the system variable applyVariables injects: new Date().toLocaleDateString()
SystemDate == [t |-> "string", s |-> <<"1/11/2026">>]

\* what every object literal inherits from Object.prototype: seen by the
\* in operator, and read by current[part]
ObjectPrototype == [constructor |-> [t |-> "function"]]

\* String(value) of a value that is neither undefined nor null
String(value) ==
    CASE value.t = "string" -> value.s
      [] value.t = "number" -> <<"0">>
      [] value.t = "function" -> <<"function Object() { [native code] }">>
      [] value.t = "object" -> <<"[object Object]">>

\* the in operator of getNestedValue: own or inherited
HasProperty(obj, part) == part \in DOMAIN obj \/ part \in DOMAIN ObjectPrototype

\* a lookup that sees own properties only
getOwnValue(obj, path) ==
    IF Len(path) = 1 /\ path[1] \in DOMAIN obj THEN obj[path[1]] ELSE [t |-> "undefined"]

\* path.split('.'): the parts between the dots
RECURSIVE Split(_, _)
Split(path, part) ==
    IF path = <<>> THEN <<part>>
    ELSE IF Head(path) = "." THEN <<part>> \o Split(Tail(path), <<>>)
    ELSE Split(Tail(path), Append(part, Head(path)))

\* one turn of the loop of getNestedValue: current[part] when current is an
\* object that has part, else the function returns undefined; a part of
\* several word tokens, or of none, is a key no object of the model holds
RECURSIVE Walk(_, _)
Walk(current, parts) ==
    IF parts = <<>> THEN current
    ELSE LET part == Head(parts)
         IN  IF /\ current.t = "object"
                /\ Len(part) = 1
                /\ HasProperty(current.o, part[1])
             THEN Walk(IF part[1] \in DOMAIN current.o THEN current.o[part[1]]
                       ELSE ObjectPrototype[part[1]],
                       Tail(parts))
             ELSE [t |-> "undefined"]

\* getNestedValue(obj, path)
getNestedValue(obj, path) == Walk(Object(obj), Split(path, <<>>))

\* length of the longest run of word tokens of text from position i on: \w+
RECURSIVE WordRun(_, _)
WordRun(text, i) ==
    IF i <= Len(text) /\ IsWord(text[i]) THEN 1 + WordRun(text, i + 1) ELSE 0

\* length of the longest run of tokens other than "}" from position i on: [^}]+
RECURSIVE DefaultRun(_, _)
DefaultRun(text, i) ==
    IF i <= Len(text) /\ text[i] # "}" THEN 1 + DefaultRun(text, i + 1) ELSE 0

TokenAt(text, i) == IF i >= 1 /\ i <= Len(text) THEN text[i] ELSE "EOF"

\* the regular expression /\{\{(\w+)(?:\|([^}]+))?\}\}/ tried at position i
MatchAt(text, i) ==
    LET w == WordRun(text, i + 2)
        j == i + 2 + w
        d == DefaultRun(text, j + 1)
    IN  IF ~(TokenAt(text, i) = "{" /\ TokenAt(text, i + 1) = "{" /\ w >= 1)
        THEN [ok |-> FALSE]
        ELSE IF /\ TokenAt(text, j) = "|" /\ d >= 1
                /\ TokenAt(text, j + 1 + d) = "}" /\ TokenAt(text, j + 2 + d) = "}"
        THEN [ok |-> TRUE, varName |-> SubSeq(text, i + 2, j - 1),
              hasDefault |-> TRUE, defaultValue |-> SubSeq(text, j + 1, j + d),
              end |-> j + 2 + d]
        ELSE IF TokenAt(text, j) = "}" /\ TokenAt(text, j + 1) = "}"
        THEN [ok |-> TRUE, varName |-> SubSeq(text, i + 2, j - 1),
              hasDefault |-> FALSE, defaultValue |-> <<>>, end |-> j + 1]
        ELSE [ok |-> FALSE]

\* the replace callback: the value, else the default, else the match
Replacement(value, m, match) ==
    IF value.t # "undefined" /\ value.t # "null"
    THEN String(value)
    ELSE IF m.hasDefault THEN m.defaultValue ELSE match

RECURSIVE ReplaceFrom(_, _, _)
ReplaceFrom(text, variables, i) ==
    IF i > Len(text) THEN <<>>
    ELSE LET m == MatchAt(text, i)
         IN  IF m.ok
             THEN Replacement(getNestedValue(variables, m.varName), m,
                              SubSeq(text, i, m.end))
                    \o ReplaceFrom(text, variables, m.end + 1)
             ELSE <<text[i]>> \o ReplaceFrom(text, variables, i + 1)

replaceVariables(text, variables) == ReplaceFrom(text, variables, 1)

\* { ...contact, ...variables, date, time, timestamp }: the system
\* variables are written last
allVariables(variables) ==
    [k \in DOMAIN variables \cup {"date"} |->
        IF k = "date" THEN SystemDate ELSE variables[k]]

applyVariables(template, variables) ==
    replaceVariables(template, allVariables(variables))

\* the result the resolution order names: the same placeholders, each one
\* resolved in the variable map itself
RECURSIVE ResolveFrom(_, _, _)
ResolveFrom(text, variables, i) ==
    IF i > Len(text) THEN <<>>
    ELSE LET m == MatchAt(text, i)
         IN  IF m.ok
             THEN Replacement(getOwnValue(variables, m.varName), m,
                              SubSeq(text, i, m.end))
                    \o ResolveFrom(text, variables, m.end + 1)
             ELSE <<text[i]>> \o ResolveFrom(text, variables, i + 1)

MaxParts == 2

Fragments ==
    { <<"Hello", " ">>,
      <<"{">>,
      <<"{", "{", "name", "}", "}">>,
      <<"{", "{", "name", "|", "Guest", "}", "}">>,
      <<"{", "{", "name", "|", "}", "}">>,
      <<"{", "{", "date", "|", "Guest", "}", "}">>,
      <<"{", "{", "constructor", "|", "Guest", "}", "}">>,
      <<"{", "{", "user", ".", "name", "}", "}">> }

RECURSIVE Templates(_)
Templates(n) ==
    IF n = 0 THEN {<<>>}
    ELSE Templates(n - 1) \cup { t \o f : t \in Templates(n - 1), f \in Fragments }

\* variable maps: name absent or holding a value, date absent or supplied
VariableMaps ==
    {<<>>} \cup { [name |-> v] : v \in JsValues }
          \cup { [name |-> v, date |-> [t |-> "string", s |-> <<"Ann">>]] : v \in JsValues }
          \cup { [user |-> Object([name |-> v])] :
                    v \in {[t |-> "string", s |-> <<"Ann">>], [t |-> "undefined"]} }

TemplateInit ==
    /\ tIn \in [template : Templates(MaxParts), variables : VariableMaps]
    /\ tOut = "NONE"
    /\ dIn = [status |-> "NONE"] /\ dOut = "NONE"
    /\ IdleStore
    /\ IdleJobs
    /\ IdleOrch
    /\ IdleLoop
    /\ IdleDedup
    /\ IdleConsumer

TemplateStep ==
    /\ tOut = "NONE"
    /\ tOut' = applyVariables(tIn.template, tIn.variables)
    /\ UNCHANGED <<tIn, dvars, svars, jvars, ovars, lvars, rvars, cvars>>

TemplateNext == TemplateStep

SpecTemplate == TemplateInit /\ [][TemplateNext]_vars

\* C19: every placeholder {{name}} or {{name|default}} of a template is
\* replaced by the value the name has in the variable map (the injected
\* system variables included) when that value is neither undefined nor
\* null, otherwise by the default when one is given, otherwise it is left
\* as it is.
C19_ResolutionOrder ==
    tOut # "NONE" =>
        tOut = ResolveFrom(tIn.template, allVariables(tIn.variables), 1)

\* the dot path user.name and the placeholder that names it
DotPath == <<"user", ".", "name">>
DotPlaceholder == <<"{", "{">> \o DotPath \o <<"}", "}">>

\* C34: the placeholder {{user.name}} is replaced by the value found by
\* walking the variables along the path (variables.user.name) when that
\* value exists.
C34_DotPathPlaceholders ==
    (/\ tOut # "NONE"
     /\ tIn.template = DotPlaceholder
     /\ getNestedValue(allVariables(tIn.variables), DotPath).t \notin {"undefined", "null"})
        => tOut = String(getNestedValue(allVariables(tIn.variables), DotPath))


----------------------------------------------------------------------------
(* The campaign orchestrator and its connection monitor                     *)
(* (createBroadcastConsumer.ts): the watcher of the entries <agent>.*, the  *)
(* BroadcastProcessor loops it starts, and the callbacks of the 5 s timer.  *)
(* A step is the code between two awaits of one of them.                    *)

BatchIds == {1, 2}

MaxEvents == 3
MaxPolls == 2

OrchStatuses == {"SCHEDULED", "PROCESSING", "PAUSED"}

\* the entries the key filter of the monitor and the watcher let through
Keys == BatchIds
NoMoreKeys == Cardinality(BatchIds) + 1

\* transitionBroadcastStatus(kv, agent, batchId, 'PAUSED', ...): a campaign
\* under way is paused, any other status is left alone (PROCESSING <-> PAUSED)
transitionBroadcastStatus(by, batchId, reason) ==
    /\ issued' = <<[by |-> by, batchId |-> batchId, reason |-> reason]>> \o issued
    /\ IF bstatus[batchId] = "PROCESSING"
       THEN /\ bstatus' = [bstatus EXCEPT ![batchId] = "PAUSED"]
            /\ watchQ' = Append(watchQ, [batchId |-> batchId, status |-> "PAUSED"])
       ELSE UNCHANGED <<bstatus, watchQ>>

\* the two spellings of a campaign key
DotKey(batchId) == [agent |-> "local", sep |-> ".", batchId |-> batchId]
UnderscoreKey(batchId) == [agent |-> "local", sep |-> "_", batchId |-> batchId]

\* broadcastKV.watch({ key: `${AGENT_ID}.*` }): the keys whose first token
\* is the agent id and whose second token is anything
WatchMatches(key) == key.agent = "local" /\ key.sep = "."

\* the watch queue after a PUT of status at key
Notified(q, key, status) ==
    IF WatchMatches(key)
    THEN Append(q, [batchId |-> key.batchId, status |-> status])
    ELSE q

\* a PUT of the entry <agent>.<batch>
StatePut(batchId, status) ==
    /\ nenv < MaxEvents
    /\ bstatus[batchId] # status
    /\ nenv' = nenv + 1
    /\ bstatus' = [bstatus EXCEPT ![batchId] = status]
    /\ watchQ' = Notified(watchQ, DotKey(batchId), status)
    /\ UNCHANGED <<connected, drops, currentProcessor, procs, lastConnectionState,
                   polls, issued, ustore, dvars, svars, jvars, tvars, lvars, rvars, cvars>>

\* processActions START_BROADCAST: status PROCESSING stored at <agent>_<batch>
CommandStart(batchId) ==
    /\ nenv < MaxEvents
    /\ ustore[batchId] # CommandStatus("START_BROADCAST")
    /\ nenv' = nenv + 1
    /\ ustore' = [ustore EXCEPT ![batchId] = CommandStatus("START_BROADCAST")]
    /\ watchQ' = Notified(watchQ, UnderscoreKey(batchId), CommandStatus("START_BROADCAST"))
    /\ UNCHANGED <<connected, bstatus, drops, currentProcessor, procs, lastConnectionState,
                   polls, issued, dvars, svars, jvars, tvars, lvars, rvars, cvars>>

\* the session loses or regains its user
Disconnect ==
    /\ nenv < MaxEvents
    /\ connected
    /\ nenv' = nenv + 1
    /\ connected' = FALSE
    /\ drops' = drops + 1
    /\ UNCHANGED <<bstatus, watchQ, currentProcessor, procs, lastConnectionState,
                   polls, issued, ustore, dvars, svars, jvars, tvars, lvars, rvars, cvars>>

Reconnect ==
    /\ nenv < MaxEvents
    /\ ~connected
    /\ nenv' = nenv + 1
    /\ connected' = TRUE
    /\ UNCHANGED <<bstatus, watchQ, drops, currentProcessor, procs, lastConnectionState,
                   polls, issued, ustore, dvars, svars, jvars, tvars, lvars, rvars, cvars>>

\* new BroadcastProcessor(state, ...) followed by start() up to its first
\* await: isRunning = true, then sleep(1000)
NewProcessor(batchId) == [batchId |-> batchId, isRunning |-> TRUE, pc |-> "sleep"]

\* a stop() that leaves the flag as it is
NotStopped(ps, i) == ps

\* stop(): the flag only
Stopped(ps, i) == [ps EXCEPT ![i].isRunning = FALSE]

\* the watcher's handling of one notification
WatcherNotify ==
    /\ watchQ # <<>>
    /\ LET state == Head(watchQ)
       IN  IF state.status = "PROCESSING"
           THEN IF currentProcessor = 0
                THEN /\ procs' = Append(procs, NewProcessor(state.batchId))
                     /\ currentProcessor' = Len(procs) + 1
                ELSE IF procs[currentProcessor].batchId # state.batchId
                THEN /\ procs' = Append(Stopped(procs, currentProcessor),
                                        NewProcessor(state.batchId))
                     /\ currentProcessor' = Len(procs) + 1
                ELSE UNCHANGED <<procs, currentProcessor>>
           ELSE IF currentProcessor # 0
                THEN /\ procs' = Stopped(procs, currentProcessor)
                     /\ currentProcessor' = 0
                ELSE UNCHANGED <<procs, currentProcessor>>
    /\ watchQ' = Tail(watchQ)
    /\ UNCHANGED <<connected, bstatus, nenv, drops, lastConnectionState, polls, issued,
                   ustore, dvars, svars, jvars, tvars, lvars, rvars, cvars>>

Exited(ps, i) == [ps EXCEPT ![i].isRunning = FALSE, ![i].pc = "exited"]

\* one turn of the loop of start(): the while test, the connection check,
\* then the task; outcome is what getNextPendingTask and processTask give
ProcessorStep(i, outcome) ==
    /\ i \in DOMAIN procs
    /\ procs[i].pc # "exited"
    /\ IF ~procs[i].isRunning
       THEN /\ procs' = Exited(procs, i)
            /\ UNCHANGED <<bstatus, watchQ, issued>>
       ELSE IF ~connected
       THEN /\ transitionBroadcastStatus("processor", procs[i].batchId,
                                         "AUTO_PAUSE_DISCONNECTION")
            /\ procs' = Exited(procs, i)
       ELSE CASE outcome = "none" ->
                   /\ procs' = Exited(procs, i)
                   /\ UNCHANGED <<bstatus, watchQ, issued>>
              [] outcome = "task" ->
                   /\ procs' = [procs EXCEPT ![i].pc = "loop"]
                   /\ UNCHANGED <<bstatus, watchQ, issued>>
              [] outcome = "error" ->
                   /\ transitionBroadcastStatus("processor", procs[i].batchId, "ERROR")
                   /\ procs' = Exited(procs, i)
    /\ UNCHANGED <<connected, nenv, drops, currentProcessor, lastConnectionState, polls,
                   ustore, dvars, svars, jvars, tvars, lvars, rvars, cvars>>

\* the timer fires: the callback up to its first await.  With no edge it
\* ends at once; with one it starts to list the keys
PollFire ==
    /\ Len(polls) < MaxPolls
    /\ IF lastConnectionState /\ ~connected
       THEN /\ polls' = Append(polls, [isConnected |-> connected, key |-> 1, pc |-> "get"])
            /\ UNCHANGED lastConnectionState
       ELSE /\ polls' = Append(polls, [isConnected |-> connected, key |-> NoMoreKeys,
                                       pc |-> "done"])
            /\ lastConnectionState' = connected
    /\ UNCHANGED <<connected, bstatus, watchQ, nenv, drops, currentProcessor, procs,
                   issued, ustore, dvars, svars, jvars, tvars, lvars, rvars, cvars>>

\* broadcastKV.get(key) of a running callback and the status test
PollGet(p) ==
    /\ p \in DOMAIN polls
    /\ polls[p].pc = "get"
    /\ polls[p].key \in Keys
    /\ polls' = IF bstatus[polls[p].key] = "PROCESSING"
                THEN [polls EXCEPT ![p].pc = "transition"]
                ELSE [polls EXCEPT ![p].key = @ + 1]
    /\ UNCHANGED <<connected, bstatus, watchQ, nenv, drops, currentProcessor, procs,
                   lastConnectionState, issued, ustore, dvars, svars, jvars, tvars, lvars, rvars, cvars>>

PollTransition(p) ==
    /\ p \in DOMAIN polls
    /\ polls[p].pc = "transition"
    /\ transitionBroadcastStatus("monitor", polls[p].key, "AUTO_PAUSE_DISCONNECTION")
    /\ polls' = [polls EXCEPT ![p].pc = "get", ![p].key = @ + 1]
    /\ UNCHANGED <<connected, nenv, drops, currentProcessor, procs, lastConnectionState,
                   ustore, dvars, svars, jvars, tvars, lvars, rvars, cvars>>

\* the end of a callback that saw the edge: lastConnectionState = isConnected
PollFinish(p) ==
    /\ p \in DOMAIN polls
    /\ polls[p].pc = "get"
    /\ polls[p].key = NoMoreKeys
    /\ polls' = [polls EXCEPT ![p].pc = "done"]
    /\ lastConnectionState' = polls[p].isConnected
    /\ UNCHANGED <<connected, bstatus, watchQ, nenv, drops, currentProcessor, procs,
                   issued, ustore, dvars, svars, jvars, tvars, lvars, rvars, cvars>>

OrchInit ==
    /\ connected = TRUE
    /\ bstatus = [b \in BatchIds |-> "NONE"]
    /\ ustore = [b \in BatchIds |-> "NONE"]
    /\ watchQ = <<>>
    /\ nenv = 0 /\ drops = 0
    /\ currentProcessor = 0
    /\ procs = <<>>
    /\ lastConnectionState = TRUE
    /\ polls = <<>>
    /\ issued = <<>>
    /\ dIn = [status |-> "NONE"] /\ dOut = "NONE"
    /\ IdleStore
    /\ IdleJobs
    /\ IdleTemplate
    /\ IdleLoop
    /\ IdleDedup
    /\ IdleConsumer

OrchNext ==
    \/ \E batchId \in BatchIds, status \in OrchStatuses : StatePut(batchId, status)
    \/ \E batchId \in BatchIds : CommandStart(batchId)
    \/ Disconnect
    \/ Reconnect
    \/ WatcherNotify
    \/ \E i \in 1..MaxEvents, outcome \in {"none", "task", "error"} : ProcessorStep(i, outcome)
    \/ PollFire
    \/ \E p \in 1..MaxPolls : PollGet(p)
    \/ \E p \in 1..MaxPolls : PollTransition(p)
    \/ \E p \in 1..MaxPolls : PollFinish(p)

SpecOrch == OrchInit /\ [][OrchNext]_vars

\* the watcher and its loops alone, the timer of the monitor never firing
WatchNext ==
    \/ \E batchId \in BatchIds, status \in OrchStatuses : StatePut(batchId, status)
    \/ \E batchId \in BatchIds : CommandStart(batchId)
    \/ Disconnect
    \/ Reconnect
    \/ WatcherNotify
    \/ \E i \in 1..MaxEvents, outcome \in {"none", "task", "error"} : ProcessorStep(i, outcome)

SpecWatch == OrchInit /\ [][WatchNext]_vars

\* the calls of transitionBroadcastStatus the monitor made for a batch
MonitorPauses(batchId) ==
    Cardinality({ k \in DOMAIN issued :
                    /\ issued[k].by = "monitor"
                    /\ issued[k].batchId = batchId
                    /\ issued[k].reason = "AUTO_PAUSE_DISCONNECTION" })

\* the loops of start() that have not come to their end
ActiveLoops == { i \in DOMAIN procs : procs[i].pc # "exited" }

\* C11: the connection monitor issues one PAUSED transition with reason
\* AUTO_PAUSE_DISCONNECTION for a PROCESSING batch per change from connected
\* to disconnected; polls while still disconnected, those that fire while
\* an earlier poll's pause is in progress included, issue none.  So the
\* monitor never issued more pauses for a batch than the session had
\* disconnections.
C11_EdgeTriggeredAutoPause ==
    \A batchId \in BatchIds : MonitorPauses(batchId) <= drops

\* C12: in every reachable state of the orchestrator at most one
\* BroadcastProcessor loop has not yet exited.
C12_AtMostOneActiveLoop ==
    Cardinality(ActiveLoops) <= 1


\* C21: whenever START_BROADCAST or RESUME_BROADCAST stores status
\* PROCESSING for a batch of this agent, the watcher receives the
\* notification and starts a loop for the batch: once the status is stored,
\* the notification is in the watcher's queue or a processor for the batch
\* has been made.
C21_CommandActivatesLoop ==
    \A batchId \in BatchIds :
        ustore[batchId] = "PROCESSING" =>
            \/ \E k \in DOMAIN watchQ :
                   watchQ[k] = [batchId |-> batchId, status |-> "PROCESSING"]
            \/ \E i \in DOMAIN procs : procs[i].batchId = batchId

\* a step of the watcher that handles a notification for the batch of the
\* current processor
C22_Step ==
    (/\ watchQ # <<>> /\ watchQ' = Tail(watchQ)
     /\ currentProcessor # 0
     /\ procs[currentProcessor].batchId = Head(watchQ).batchId)
        => IF Head(watchQ).status = "PROCESSING"
           THEN procs' = procs /\ currentProcessor' = currentProcessor
           ELSE /\ currentProcessor' = 0
                /\ Len(procs') = Len(procs)
                /\ ~procs'[currentProcessor].isRunning
                /\ \A i \in DOMAIN procs : i # currentProcessor => procs'[i] = procs[i]

C27_Step ==
    \A p \in DOMAIN polls :
        (/\ polls[p].pc = "get" /\ polls[p].key \in Keys
         /\ bstatus[polls[p].key] \in {"SCHEDULED", "STARTING", "PROCESSING"}
         /\ polls'[p] # polls[p])
            => polls'[p].pc = "transition"

\* C27: on an observed change from connected to disconnected, every
\* campaign of this agent whose status is SCHEDULED, STARTING or PROCESSING
\* is transitioned to PAUSED.
C27_AutoPauseScope == [][C27_Step]_vars

\* C39: whenever the orchestrator holds a current processor, the loop of
\* that processor has not exited; so a PROCESSING notification for a batch
\* whose loop ended on its own finds no current processor and starts a loop.
C39_CurrentProcessorLive ==
    currentProcessor # 0 => procs[currentProcessor].pc # "exited"

\* a step of the watcher that handles a notification other than PROCESSING
\* for a batch other than the one whose loop is running
C40_Step ==
    (/\ watchQ # <<>> /\ watchQ' = Tail(watchQ)
     /\ currentProcessor # 0
     /\ procs[currentProcessor].isRunning /\ procs[currentProcessor].pc # "exited"
     /\ Head(watchQ).status # "PROCESSING"
     /\ Head(watchQ).batchId # procs[currentProcessor].batchId)
        => (procs' = procs /\ currentProcessor' = currentProcessor)

\* C40: while a loop is running for a batch, a non-PROCESSING notification
\* for another batch of the agent does not stop that loop and does not
\* change the current processor.
C40_OtherBatchNotification == [][C40_Step]_vars


----------------------------------------------------------------------------
(* One BroadcastProcessor (createBroadcastConsumer.ts 175-459): the loop of *)
(* start() from await to await, with the session, the Task API and stop()  *)
(* as its environment.                                                      *)

MaxTasks == 5

\* failureRate > 0.5 && currentState.processed >= 5
FAILURE_PAUSE_MIN_PROCESSED == 5

\* the module variable sock of utils/sock: null until setSock, then a
\* socket with or without a logged-in user
SockStates == {"none", "nouser", "live"}

\* the entry at <agent>.<batch> the failure-rate check reads; no code of the
\* loop writes its counters
DotEntries ==
    { [exists |-> FALSE],
      [exists |-> TRUE, processed |-> 0, failed |-> 0],
      [exists |-> TRUE, processed |-> FAILURE_PAUSE_MIN_PROCESSED,
       failed |-> FAILURE_PAUSE_MIN_PROCESSED] }

\* a loop test that does not look at the flag
LoopTestIgnoresFlag(flag) == TRUE

\* while (this.isRunning)
LoopTest(flag) == flag

\* a loop that asks again when the Task API has no pending task
AfterFetchPolls(result) ==
    CASE result = "none"  -> "delay"
      [] result = "error" -> "exited"
      [] result = "task"  -> "send"

\* where the loop goes when getNextPendingTask has returned: null breaks,
\* an error is thrown into the catch of the loop, a task is processed
AfterFetch(result) ==
    CASE result = "none"  -> "exited"
      [] result = "error" -> "exited"
      [] result = "task"  -> "send"

\* the check after a failed send, on the entry it reads
FailureRateHigh(entry) ==
    /\ entry.exists
    /\ entry.processed > 0
    /\ 2 * entry.failed > entry.processed
    /\ entry.processed >= FAILURE_PAUSE_MIN_PROCESSED

\* updateBroadcastProgress(kv, batchId, agentId, {status}) on the counters
\* of the entry at <agent>_<batch>
Counted(prog, status) ==
    [processed |-> prog.processed + 1,
     failed |-> IF status = "ERROR" THEN prog.failed + 1 ELSE prog.failed]

\* stop() and what the loop began after it
AfterStop(g, what) ==
    IF ~g.stopped THEN g
    ELSE IF what = "fetch" THEN [g EXCEPT !.fetches = @ + 1]
    ELSE [g EXCEPT !.sends = @ + 1]

\* await sleep(1000) of start() is over
LoopWake ==
    /\ lpc = "sleep"
    /\ lpc' = "test"
    /\ llast' = [step |-> "wake", seen |-> "none"]
    /\ UNCHANGED <<isRunning, sock, pending, lprog, dotEntry, lpause, lghost,
                   dvars, svars, jvars, tvars, ovars, rvars, cvars>>

\* the while test and the connection check of one iteration, up to the
\* await of getNextPendingTask or of pauseBroadcast
LoopIterate ==
    /\ lpc = "test"
    /\ llast' = [step |-> "iterate", seen |-> IF LoopTest(isRunning) THEN sock ELSE "flag"]
    /\ IF ~LoopTest(isRunning)
       THEN /\ lpc' = "exited" /\ isRunning' = FALSE
            /\ UNCHANGED <<lpause, lghost>>
       ELSE CASE sock = "none" ->
                   \* getSock() throws; the catch of the loop pauses with ERROR
                   /\ lpause' = "ERROR"
                   /\ lpc' = "exited" /\ isRunning' = FALSE
                   /\ UNCHANGED lghost
              [] sock = "nouser" ->
                   /\ lpause' = "AUTO_PAUSE_DISCONNECTION"
                   /\ lpc' = "exited" /\ isRunning' = FALSE
                   /\ UNCHANGED lghost
              [] sock = "live" ->
                   /\ lpc' = "fetch"
                   /\ lghost' = AfterStop(lghost, "fetch")
                   /\ UNCHANGED <<isRunning, lpause>>
    /\ UNCHANGED <<sock, pending, lprog, dotEntry, dvars, svars, jvars, tvars, ovars, rvars, cvars>>

\* getNextPendingTask returns: a task while one is pending, null (404 or an
\* empty body) when none is, or an error of the Task API; then the head of
\* processTask up to the await of sendMessage
LoopFetched(result) ==
    /\ lpc = "fetch"
    /\ result = "task" => pending > 0
    /\ result = "none" => pending = 0
    /\ llast' = [step |-> "fetched", seen |-> result]
    /\ IF AfterFetch(result) = "send" /\ sock = "none"
       THEN \* getSock() throws inside processTask: task ERROR, progress ERROR,
            \* return true
            /\ pending' = pending - 1
            /\ lprog' = Counted(lprog, "ERROR")
            /\ lpc' = "delay"
            /\ UNCHANGED <<isRunning, lpause, lghost>>
       ELSE /\ lpc' = AfterFetch(result)
            /\ lpause' = IF result = "error" THEN "ERROR" ELSE lpause
            /\ isRunning' = IF AfterFetch(result) = "exited" THEN FALSE ELSE isRunning
            /\ lghost' = IF AfterFetch(result) = "send" THEN AfterStop(lghost, "send")
                         ELSE lghost
            /\ UNCHANGED <<pending, lprog>>
    /\ UNCHANGED <<sock, dotEntry, dvars, svars, jvars, tvars, ovars, rvars, cvars>>

\* sendMessage returns or throws, and processTask runs to its end
LoopSent(outcome) ==
    /\ lpc = "send"
    /\ outcome = "ok" => sock = "live"
    /\ llast' = [step |-> "sent", seen |-> outcome]
    /\ pending' = pending - 1
    /\ lprog' = Counted(lprog, IF outcome = "ok" THEN "COMPLETED" ELSE "ERROR")
    /\ IF outcome = "fail" /\ FailureRateHigh(dotEntry)
       THEN /\ lpause' = "ERROR"
            /\ lpc' = "exited" /\ isRunning' = FALSE
       ELSE /\ lpc' = "delay"
            /\ UNCHANGED <<isRunning, lpause>>
    /\ UNCHANGED <<sock, dotEntry, lghost, dvars, svars, jvars, tvars, ovars, rvars, cvars>>

\* the 2-5 s delay between two tasks is over
LoopDelay ==
    /\ lpc = "delay"
    /\ lpc' = "test"
    /\ llast' = [step |-> "delay", seen |-> "none"]
    /\ UNCHANGED <<isRunning, sock, pending, lprog, dotEntry, lpause, lghost,
                   dvars, svars, jvars, tvars, ovars, rvars, cvars>>

\* the watcher calls stop()
StopRequest ==
    /\ lpc # "exited"
    /\ ~lghost.stopped
    /\ isRunning' = FALSE
    /\ lghost' = [lghost EXCEPT !.stopped = TRUE]
    /\ UNCHANGED <<lpc, sock, pending, lprog, dotEntry, lpause, llast,
                   dvars, svars, jvars, tvars, ovars, rvars, cvars>>

\* setSock(s) with a new socket, or the user of the socket comes or goes
SockChange(s) ==
    /\ lpc # "exited"
    /\ sock # s
    /\ sock' = s
    /\ UNCHANGED <<lpc, isRunning, pending, lprog, dotEntry, lpause, llast, lghost,
                   dvars, svars, jvars, tvars, ovars, rvars, cvars>>

LoopInit ==
    /\ lpc = "sleep"
    /\ isRunning = TRUE
    /\ sock \in SockStates
    /\ pending \in 0..MaxTasks
    /\ lprog = [processed |-> 0, failed |-> 0]
    /\ dotEntry \in DotEntries
    /\ lpause = "NONE"
    /\ llast = [step |-> "start", seen |-> "none"]
    /\ lghost = [stopped |-> FALSE, fetches |-> 0, sends |-> 0]
    /\ dIn = [status |-> "NONE"] /\ dOut = "NONE"
    /\ IdleStore
    /\ IdleJobs
    /\ IdleTemplate
    /\ IdleOrch
    /\ IdleDedup
    /\ IdleConsumer

LoopStep ==
    \/ LoopWake
    \/ LoopIterate
    \/ \E result \in {"task", "none", "error"} : LoopFetched(result)
    \/ \E outcome \in {"ok", "fail", "throw"} : LoopSent(outcome)
    \/ LoopDelay

LoopNext ==
    \/ LoopStep
    \/ StopRequest
    \/ \E s \in {"nouser", "live"} : SockChange(s)

SpecLoop == LoopInit /\ [][LoopNext]_vars

\* every await of the loop returns: a loop that can take a step takes one
SpecLoopLive == LoopInit /\ [][LoopNext]_vars /\ WF_vars(LoopStep)

\* C23: at the start of an iteration, a session that is not live (no
\* socket, or a socket without a logged-in user) makes the loop pause the
\* campaign with reason AUTO_PAUSE_DISCONNECTION and exit, with no task
\* fetched or sent.
C23_LostSessionPauses ==
    (llast.step = "iterate" /\ llast.seen \in {"none", "nouser"})
        => (lpause = "AUTO_PAUSE_DISCONNECTION" /\ lpc = "exited")

\* C24: after the progress update of a failed send, a failure rate
\* failed/processed of the batch above 50% with at least 5 processed
\* recipients pauses the batch with reason ERROR and ends the loop.
C24_FailureRatePauses ==
    (/\ llast.step = "sent" /\ llast.seen = "fail"
     /\ 2 * lprog.failed > lprog.processed
     /\ lprog.processed >= FAILURE_PAUSE_MIN_PROCESSED)
        => (lpause = "ERROR" /\ lpc = "exited")

C26_CooperativeStop ==
    /\ [](lghost.fetches = 0 /\ lghost.sends <= 1)
    /\ [](lghost.stopped => <>(lpc = "exited"))

\* stop() came while a fetch was in flight; its task was sent and the loop
\* then left at the test
C26_Witness ==
    /\ lghost.stopped /\ lghost.sends = 1
    /\ lpc = "exited" /\ llast.step = "iterate" /\ llast.seen = "flag"

----------------------------------------------------------------------------
(* The dedup record of one job in Redis (markAsProcessed / markAsFailed of  *)
(* createMailcastConsumer and createAgentDurableConsumer).  One behaviour   *)
(* follows the value stored at one dedup key under any sequence of the two  *)
(* writers, by any message that carries the job, while the clock advances   *)
(* and the key may expire.                                                  *)

MaxClock == 3

\* m.seq of the stream messages that carry the job
Seqs == {1, 2}

NoRecord == [exists |-> FALSE]

\* JSON.stringify({ processedAt: new Date().toISOString(), ...data })
ProcessedRecord(t, seq) ==
    [exists |-> TRUE, processedAt |-> t, failed |-> FALSE, seq |-> seq]

\* JSON.stringify({ processedAt: ..., failed: true, ...data })
FailedRecord(t, seq) ==
    [exists |-> TRUE, processedAt |-> t, failed |-> TRUE, seq |-> seq]

\* a SET that stores the value whether or not the key holds one
RedisSetIgnoresNX(cell, value, nx) == [cell |-> value, reply |-> "OK"]

\* redis.set(key, value, 'EX', 604800 [, 'NX']): with NX the value is stored
\* only if the key holds nothing, and the reply of a refused SET is null
RedisSet(cell, value, nx) ==
    IF nx /\ cell # NoRecord
    THEN [cell |-> cell, reply |-> "null"]
    ELSE [cell |-> value, reply |-> "OK"]

\* the record without its timestamp
SansTimestamp(cell) ==
    IF cell = NoRecord THEN cell ELSE [failed |-> cell.failed, seq |-> cell.seq]

\* one command sent to Redis: it is rejected when the connection is down
\* (the promise of redis.set rejects and the writer throws), else applied
Command(op, seq, up, set) ==
    /\ redis' = IF up THEN set.cell ELSE redis
    /\ rlast' = [op |-> op, seq |-> seq, at |-> now,
                 reply |-> IF up THEN set.reply ELSE "rejected",
                 threw |-> ~up, prev |-> redis]
    /\ UNCHANGED <<now, dvars, svars, jvars, tvars, ovars, lvars, cvars>>

markAsProcessed(seq, up) ==
    Command("markAsProcessed", seq, up, RedisSet(redis, ProcessedRecord(now, seq), TRUE))

markAsFailed(seq, up) ==
    Command("markAsFailed", seq, up, RedisSet(redis, FailedRecord(now, seq), FALSE))

\* new Date() moves on
Tick ==
    /\ now < MaxClock
    /\ now' = now + 1
    /\ UNCHANGED <<redis, rlast, dvars, svars, jvars, tvars, ovars, lvars, cvars>>

\* the TTL of the key (EX 604800) runs out
Expire ==
    /\ redis # NoRecord
    /\ redis' = NoRecord
    /\ rlast' = [op |-> "expire", seq |-> 0, at |-> now, reply |-> "none",
                 threw |-> FALSE, prev |-> redis]
    /\ UNCHANGED <<now, dvars, svars, jvars, tvars, ovars, lvars, cvars>>

DedupInit ==
    /\ redis = NoRecord
    /\ now = 0
    /\ rlast = [op |-> "none"]
    /\ dIn = [status |-> "NONE"] /\ dOut = "NONE"
    /\ IdleStore
    /\ IdleJobs
    /\ IdleTemplate
    /\ IdleOrch
    /\ IdleLoop
    /\ IdleConsumer

DedupNext ==
    \/ \E seq \in Seqs, up \in BOOLEAN : markAsProcessed(seq, up)
    \/ \E seq \in Seqs, up \in BOOLEAN : markAsFailed(seq, up)
    \/ Tick
    \/ Expire

SpecDedup == DedupInit /\ [][DedupNext]_vars

\* C32: markAsProcessed is create-if-absent: on a key that holds a record
\* (a failed marker included) it changes nothing and does not throw, the
\* refused create being a null reply; on a free key it stores its record.
\* markAsFailed stores its record whatever the key holds, and a second
\* markAsFailed of the same message right after the first leaves the record
\* the first one left, up to the timestamp.
C32_Step ==
    \A seq \in Seqs :
        /\ markAsProcessed(seq, TRUE) =>
              /\ redis # NoRecord => (redis' = redis /\ rlast'.reply = "null")
              /\ redis = NoRecord => redis' = ProcessedRecord(now, seq)
              /\ ~rlast'.threw
        /\ markAsFailed(seq, TRUE) =>
              /\ redis' = FailedRecord(now, seq)
              /\ ~rlast'.threw
              /\ (rlast.op = "markAsFailed" /\ rlast.seq = seq /\ ~rlast.threw)
                    => SansTimestamp(redis') = SansTimestamp(redis)

C32_DedupWriteSemantics == [][C32_Step]_vars

\* a create refused over a failed marker written earlier, which is still
\* the record stored
C32_Witness ==
    /\ rlast.op = "markAsProcessed" /\ rlast.reply = "null" /\ ~rlast.threw
    /\ redis # NoRecord /\ redis.failed /\ redis.processedAt < now

----------------------------------------------------------------------------
(* The consumer loop and its restart (startMailcastConsumer of              *)
(* createMailcastConsumer, startConsumer of createAgentDurableConsumer).    *)
(* consumer is where the function is: "starting" (awaiting consumers.get    *)
(* and consume), "consuming" (inside the for-await loop), "waiting" (it     *)
(* returned from its catch with the restart timer set) or "stopped" (it     *)
(* returned with nothing scheduled).                                        *)

MaxFailures == 3
MaxMessages == 3

\* a restart that does not look at the shutdown flag
RestartAlways(flag) == TRUE

\* "if (!isShuttingDown)", in the catch and again in the timer callback
RestartAllowed(flag) == ~flag

\* the catch of the function: log, and set the timer unless shutting down
ConsumerError(step) ==
    /\ failures < MaxFailures
    /\ failures' = failures + 1
    /\ restartTimer' = RestartAllowed(isShuttingDown)
    /\ consumer' = IF RestartAllowed(isShuttingDown) THEN "waiting" ELSE "stopped"
    /\ clast' = [step |-> step]
    /\ UNCHANGED <<isShuttingDown, consumed>>

\* consumers.get and consume resolve: the loop is entered
StartOk ==
    /\ consumer = "starting"
    /\ consumer' = "consuming"
    /\ consumed' = 0
    /\ clast' = [step |-> "started"]
    /\ UNCHANGED <<isShuttingDown, restartTimer, failures,
                   dvars, svars, jvars, tvars, ovars, lvars, rvars>>

\* consumers.get or consume rejects
StartFail ==
    /\ consumer = "starting"
    /\ ConsumerError("start_failed")
    /\ UNCHANGED <<dvars, svars, jvars, tvars, ovars, lvars, rvars>>

\* one message of the iterator: break when shutting down, else handle it
Message ==
    /\ consumer = "consuming"
    /\ IF isShuttingDown
       THEN /\ consumer' = "stopped"
            /\ clast' = [step |-> "break"]
            /\ UNCHANGED consumed
       ELSE /\ consumed < MaxMessages
            /\ consumed' = consumed + 1
            /\ clast' = [step |-> "message"]
            /\ UNCHANGED consumer
    /\ UNCHANGED <<isShuttingDown, restartTimer, failures,
                   dvars, svars, jvars, tvars, ovars, lvars, rvars>>

\* the iterator throws, or an error escapes the handling of a message
LoopFail ==
    /\ consumer = "consuming"
    /\ ConsumerError("loop_failed")
    /\ UNCHANGED <<dvars, svars, jvars, tvars, ovars, lvars, rvars>>

\* the iterator ends without an exception ("Message iterator ended")
IteratorEnd ==
    /\ consumer = "consuming"
    /\ consumer' = "stopped"
    /\ clast' = [step |-> "ended"]
    /\ UNCHANGED <<isShuttingDown, restartTimer, failures, consumed,
                   dvars, svars, jvars, tvars, ovars, lvars, rvars>>

\* the callback of setTimeout(..., 5000)
TimerFire ==
    /\ restartTimer
    /\ restartTimer' = FALSE
    /\ consumer' = IF RestartAllowed(isShuttingDown) THEN "starting" ELSE "stopped"
    /\ clast' = [step |-> "timer"]
    /\ UNCHANGED <<isShuttingDown, failures, consumed,
                   dvars, svars, jvars, tvars, ovars, lvars, rvars>>

\* the onClose hook
Shutdown ==
    /\ ~isShuttingDown
    /\ isShuttingDown' = TRUE
    /\ UNCHANGED <<consumer, restartTimer, failures, consumed, clast,
                   dvars, svars, jvars, tvars, ovars, lvars, rvars>>

ConsumerInit ==
    /\ consumer = "starting"
    /\ isShuttingDown = FALSE
    /\ restartTimer = FALSE
    /\ failures = 0
    /\ consumed = 0
    /\ clast = [step |-> "start"]
    /\ dIn = [status |-> "NONE"] /\ dOut = "NONE"
    /\ IdleStore
    /\ IdleJobs
    /\ IdleTemplate
    /\ IdleOrch
    /\ IdleLoop
    /\ IdleDedup

ConsumerNext ==
    \/ StartOk
    \/ StartFail
    \/ Message
    \/ LoopFail
    \/ IteratorEnd
    \/ TimerFire
    \/ Shutdown

\* the timer fires once set, and the server answers a start in the end
SpecConsumer ==
    ConsumerInit /\ [][ConsumerNext]_vars /\ WF_vars(TimerFire) /\ SF_vars(StartOk)

\* C33: an exception of the consumer loop with no shutdown requested sets
\* the restart timer, with a shutdown requested it sets nothing; the
\* consumer is started again only by the timer and only with no shutdown
\* requested; and a consumer waiting for its restart consumes again unless
\* a shutdown is requested.
C33_Step ==
    /\ failures' # failures =>
          /\ ~isShuttingDown => (restartTimer' /\ consumer' = "waiting")
          /\ isShuttingDown => (~restartTimer' /\ consumer' = "stopped")
    /\ (consumer # "starting" /\ consumer' = "starting") =>
          (restartTimer /\ ~restartTimer' /\ ~isShuttingDown)
    /\ (isShuttingDown /\ consumer \in {"waiting", "stopped"}) =>
          consumer' \in {"waiting", "stopped"}

============================================================================
